---- MODULE Spec2Model ----
(***************************************************************************)
(* Model of the web3Jobs batch scripts: the two job collectors writing     *)
(* the relational job_postings table, the two social collectors writing   *)
(* the social_media_posts collection, the sentiment pass updating it, and  *)
(* the run_all_tasks orchestrator.                                         *)
(*                                                                         *)
(* Python strings are sequences of one-character strings, so that strip,   *)
(* lower and the pin-glyph substitution are computed, not assumed.  URL    *)
(* prefixes are kept as one atom each.  None is the one-element sequence   *)
(* NoneVal, which no text of the model equals.                             *)
(***************************************************************************)
EXTENDS Integers, Sequences, FiniteSets, TLC

VARIABLES
    script,               \* the script whose process is alive ("idle" when none)
    pc,                   \* position of that process in its file
    pass_no,              \* which copy of the collect_web3career.py body is running
    exit_status,          \* "none" while running, else "0" or "1"
    db_conn,              \* psycopg2 connection: "none", "open", "closed"
    job_postings,         \* committed rows of the job_postings table
    txn,                  \* rows inserted by the open transaction, not yet committed
    jobs_list,            \* jobs_list / job_rows: the fetched raw records
    idx,                  \* number of loop iterations of the record loop done so far
    inserted_count,
    skipped_count,
    total_processed,
    api_error,
    mongo_client,         \* MongoClient: "none", "open", "closed"
    social_media_posts,   \* the collection, in insertion order
    unique_index,         \* whether the unique (source, source_specific_id) index exists
    iter,                 \* iterations done of the subreddit / keyword / query loop
    stage_status,         \* orchestrator: status of each entry of scripts_to_run
    stage_idx,            \* orchestrator: index of the loop variable script_name
    orch_pc,              \* orchestrator: position in run_all_tasks.py
    orch_exit,            \* orchestrator: exit code of the run ("none" until it ends)
    stage_out,            \* orchestrator: what subprocess.run gave for each stage
    raw_in,               \* canonicaliser study: the raw record under study
    canon_out,            \* canonicaliser study: what a collector made of it
    store_at_start,       \* history: job_postings when the record loop was entered
    faults,               \* history: loop positions whose insert raised in this pass
    documents_to_analyze, \* process_sentiment.py: the documents the query selected
    updated_count,
    error_count,
    utcnow,               \* the clock that process_sentiment.py reads
    abort_cause,          \* history: why the setup of this process gave up ("none" if not)
    fetch_failed,         \* history: a request of this pass failed
    raw_data,             \* collect_web3career.py: the parsed API response
    calls,                \* history: what this job collector process did so far
    vendor_data,          \* repeated-run study: what the vendor answers to every request
    run_no,               \* repeated-run study: which run on vendor_data this is
    first_run             \* repeated-run study: how the first run ended

vars == <<script, pc, pass_no, exit_status, db_conn, job_postings, txn, jobs_list,
          idx, inserted_count, skipped_count, total_processed, api_error,
          mongo_client, social_media_posts, unique_index, iter,
          stage_status, stage_idx, orch_pc, orch_exit, stage_out, raw_in, canon_out,
          store_at_start, faults, documents_to_analyze, updated_count, error_count,
          utcnow, abort_cause, fetch_failed, raw_data, calls, vendor_data, run_no,
          first_run>>

procVars == <<script, pc, pass_no, exit_status, jobs_list, idx, inserted_count,
              skipped_count, total_processed, api_error, iter>>
jobsVars == <<db_conn, job_postings, txn>>
socialVars == <<mongo_client, social_media_posts, unique_index>>
orchVars == <<stage_status, stage_idx, orch_pc, orch_exit, stage_out>>
canonVars == <<raw_in, canon_out>>
histVars == <<store_at_start, faults>>
sentVars == <<documents_to_analyze, updated_count, error_count, utcnow>>
runVars == <<abort_cause, fetch_failed>>
obsVars == <<raw_data, calls>>
twiceVars == <<vendor_data, run_no, first_run>>

-----------------------------------------------------------------------------
(* Bounds of the model. *)

MaxBatch == 2        \* longest fetched batch
MaxDocs == 2         \* most documents in the collection an enrichment pass starts on
MaxRuns == 2         \* most runs of process_sentiment.py that the clock tells apart

-----------------------------------------------------------------------------
(* Python values and string functions. *)

NoneVal == <<"None">>
S_NA == <<"N", "/", "A">>
S_Remote == <<"R", "e", "m", "o", "t", "e">>
S_remote == <<"r", "e", "m", "o", "t", "e">>
S_REMOTE == <<"R", "E", "M", "O", "T", "E">>
S_Berlin == <<"B", "e", "r", "l", "i", "n">>
S_defi == <<"d", "e", "f", "i">>
S_Dev == <<"D", "e", "v">>
S_Eng == <<"E", "n", "g">>
S_100k == <<"1", "0", "0", "k">>
S_great == <<"g", "r", "e", "a", "t">>
S_good == <<"g", "o", "o", "d">>
S_hi_padded == <<" ", " ", "h", "i", " ", " ">>
NotAStr == <<"int">>
Pin == "<pin>"

\* Python truthiness of a str-or-None value
Truthy(x) == x # NoneVal /\ x # <<>>

IsSpace(c) == c = " "

LowerChar(c) ==
    CASE c = "R" -> "r" [] c = "E" -> "e" [] c = "M" -> "m" [] c = "O" -> "o"
      [] c = "T" -> "t" [] c = "B" -> "b" [] c = "D" -> "d" [] c = "N" -> "n"
      [] c = "A" -> "a" [] OTHER -> c

Lower(s) == [i \in 1..Len(s) |-> LowerChar(s[i])]

RECURSIVE LStrip(_)
LStrip(s) == IF s # <<>> /\ IsSpace(Head(s)) THEN LStrip(Tail(s)) ELSE s

RECURSIVE RStrip(_)
RStrip(s) ==
    IF s # <<>> /\ IsSpace(s[Len(s)]) THEN RStrip(SubSeq(s, 1, Len(s) - 1)) ELSE s

Strip(s) == RStrip(LStrip(s))

\* re.sub(r'^\s*<pin>\s*', '', s): the match is removed, a string that does not
\* match is returned as it is
SubPin(s) ==
    LET a == LStrip(s)
    IN  IF a # <<>> /\ Head(a) = Pin THEN LStrip(Tail(a)) ELSE s

SeqContains(seq, x) == \E i \in 1..Len(seq) : seq[i] = x

-----------------------------------------------------------------------------
(* The canonicalisers: a raw vendor record to a job_postings row. *)

BASE_URL == <<"https://cryptojobslist.com">>

\* urllib.parse.urljoin(BASE_URL, rel) for an absolute URL or a path
UrlJoin(base, rel) ==
    IF Head(rel) = "https://cryptojobslist.com" \/ Head(rel) = "https://other.example"
    THEN rel ELSE base \o rel

\* collect_web3career.py: a job entry is [isdict, title, apply_url, tags, location];
\* tags is [kind, items] with kind "list", "null" (None) or "int" (a truthy
\* value that cannot be iterated)
Web3IsRemote(tags) ==
    IF tags.kind = "list" /\ tags.items # <<>>
    THEN IF SeqContains([i \in 1..Len(tags.items) |-> Lower(tags.items[i])], S_remote)
         THEN "true" ELSE "false"
    ELSE "null"

\* the outcome of one loop body up to the insert: "skip", "raise" or a row
Web3Canon(e) ==
    IF ~e.isdict THEN [outcome |-> "skip"]
    ELSE IF e.tags.kind = "int" THEN [outcome |-> "raise"]
    ELSE IF Truthy(e.title) /\ Truthy(e.apply_url)
    THEN [outcome |-> "row",
          row |-> [title |-> e.title, job_url |-> e.apply_url,
                   location |-> e.location, source |-> "Web3.Career",
                   is_remote |-> Web3IsRemote(e.tags)]]
    ELSE [outcome |-> "skip"]

\* scrape_cryptojobslist.py: a table row is [ad, title_text, href, tags, loc_text,
\* salary_text]; title_text, href, loc_text and salary_text are NoneVal when the
\* element (or attribute) is not in the row
CjlTitle(r) == IF r.title_text # NoneVal THEN Strip(r.title_text) ELSE S_NA

CjlTags(r) == [i \in 1..Len(r.tags) |-> Strip(r.tags[i])]

CjlJobUrl(r) ==
    IF r.title_text # NoneVal /\ Truthy(r.href) THEN UrlJoin(BASE_URL, r.href) ELSE S_NA

CjlSalary(r) == IF r.salary_text # NoneVal THEN Strip(r.salary_text) ELSE S_NA

CjlLocation(r) ==
    LET salary == CjlSalary(r)
        raw_location_text == IF r.loc_text # NoneVal THEN Strip(r.loc_text) ELSE NoneVal
        loc1 == IF raw_location_text # NoneVal
                   /\ (salary = S_NA \/ salary # raw_location_text)
                THEN Strip(SubPin(raw_location_text)) ELSE S_NA
    IN  IF loc1 = S_NA /\ SeqContains(CjlTags(r), S_Remote) THEN S_Remote ELSE loc1

CjlIsRemote(r) ==
    IF CjlLocation(r) = S_Remote \/ SeqContains(CjlTags(r), S_Remote)
    THEN "true" ELSE "false"

CjlCanon(r) ==
    IF r.ad THEN [outcome |-> "ad"]
    ELSE IF CjlTitle(r) # S_NA /\ CjlJobUrl(r) # S_NA
    THEN [outcome |-> "row",
          row |-> [title |-> CjlTitle(r), job_url |-> CjlJobUrl(r),
                   location |-> CjlLocation(r), source |-> "CryptoJobsList",
                   is_remote |-> CjlIsRemote(r)]]
    ELSE [outcome |-> "skip"]

-----------------------------------------------------------------------------
(* Raw records the vendors may return in the collector runs. *)

U1 == <<"https://cryptojobslist.com", "/j1">>
U2 == <<"https://other.example", "/j2">>

TagList(items) == [kind |-> "list", items |-> items]

W(title, apply_url, tags) ==
    [isdict |-> TRUE, title |-> title, apply_url |-> apply_url, tags |-> tags,
     location |-> NoneVal]

NotADict ==
    [isdict |-> FALSE, title |-> NoneVal, apply_url |-> NoneVal,
     tags |-> TagList(<<>>), location |-> NoneVal]

RawWeb3Jobs ==
    { W(S_Dev, U1, TagList(<<S_Remote>>)),
      W(S_Eng, U1, TagList(<<>>)),
      W(S_Dev, U2, TagList(<<S_defi>>)),
      W(NoneVal, U2, TagList(<<>>)),
      W(S_Dev, <<>>, TagList(<<>>)),
      W(S_Eng, U2, [kind |-> "int", items |-> <<>>]),
      NotADict }

R(title_text, href, tags, loc_text) ==
    [ad |-> FALSE, title_text |-> title_text, href |-> href, tags |-> tags,
     loc_text |-> loc_text, salary_text |-> NoneVal]

RawCjlRows ==
    { R(<<" ">> \o S_Dev, <<"/j1">>, <<S_Remote>>, NoneVal),
      R(S_Eng, <<"/j1">>, <<>>, <<Pin, " ">> \o S_Berlin),
      R(S_Dev, U2, <<S_defi>>, NoneVal),
      R(NoneVal, NoneVal, <<>>, NoneVal),
      R(<<>>, <<"/j1">>, <<>>, NoneVal),
      R(S_Eng, NoneVal, <<>>, NoneVal),
      [R(S_Dev, <<"/j1">>, <<>>, NoneVal) EXCEPT !.ad = TRUE] }

\* the sequences over S of length at most n
SeqsUpTo(S, n) == UNION {[1..k -> S] : k \in 0..n}

\* what response.json() of the Web3.Career API may return: a value that is a
\* list of elements or something else, each element a list of entries or not
JsonStr == [kind |-> "str", jobs |-> <<>>]

JsonList(jobs) == [kind |-> "list", jobs |-> jobs]

JsonArray(items) == [kind |-> "list", items |-> items]

JsonObject == [kind |-> "dict", items |-> <<>>]

NoResponse == [kind |-> "none", items |-> <<>>]

\* the documented envelope: the entries are the third element
Envelope(batch) == JsonArray(<<JsonStr, JsonStr, JsonList(batch)>>)

\* an envelope that lost its first element
Shifted(batch) == JsonArray(<<JsonStr, JsonList(batch)>>)

ApiResponses(batches) ==
    {Envelope(b) : b \in batches} \cup {Shifted(b) : b \in batches}
        \cup {JsonObject, JsonArray(<<>>), JsonArray(<<JsonStr, JsonStr, JsonStr>>)}

-----------------------------------------------------------------------------
(* Process start and exit, common to the scripts. *)

JobScripts == {"collect_web3career", "scrape_cryptojobslist"}

Exit(code) == pc' = "exited" /\ exit_status' = code

\* what a job collector process has done so far
NoCalls == [connect |-> 0, request |-> 0, commit |-> 0, summary |-> 0]

\* a fresh interpreter: no variable of the previous process survives
StartScript(s) ==
    /\ pc \in {"idle", "exited"}
    /\ script' = s
    /\ pc' = "db_setup"
    /\ pass_no' = 1
    /\ exit_status' = "none"
    /\ jobs_list' = <<>>
    /\ idx' = 0
    /\ inserted_count' = 0
    /\ skipped_count' = 0
    /\ total_processed' = 0
    /\ api_error' = FALSE
    /\ iter' = 0
    /\ db_conn' = "none"
    /\ txn' = {}
    /\ mongo_client' = "none"
    /\ documents_to_analyze' = <<>>
    /\ updated_count' = 0
    /\ error_count' = 0
    /\ utcnow' = IF s = "process_sentiment" /\ utcnow < MaxRuns
                 THEN utcnow + 1 ELSE utcnow
    /\ abort_cause' = "none"
    /\ fetch_failed' = FALSE
    /\ raw_data' = NoResponse
    /\ calls' = NoCalls
    /\ UNCHANGED <<job_postings, social_media_posts, unique_index, orchVars, canonVars,
                   histVars>>

-----------------------------------------------------------------------------
(* The relational store: psycopg2 connection with an implicit transaction. *)

Visible == job_postings \cup txn

UrlPresent(u) == \E r \in Visible : r.job_url = u

\* a plain INSERT into a table without the job_url constraint
InsertWithoutConflictClause(row) == [txn |-> txn \cup {row}, rowcount |-> 1]

\* INSERT ... ON CONFLICT (job_url) DO UPDATE: the newer record wins
InsertOrUpdate(row) ==
    [txn |-> {r \in txn : r.job_url # row.job_url} \cup {row}, rowcount |-> 1]

\* cursor.execute of INSERT ... ON CONFLICT (job_url) DO NOTHING, when it does
\* not raise: the new contents of the transaction and the rowcount
ExecuteInsert(row) ==
    IF UrlPresent(row.job_url)
    THEN [txn |-> txn, rowcount |-> 0]
    ELSE [txn |-> txn \cup {row}, rowcount |-> 1]

\* db_conn.rollback(): ends the open transaction, dropping all it inserted
Rollback == {}

\* db_conn.commit()
Commit == job_postings \cup txn

\* the database setup block of both job collectors
JobsDbSetup ==
    /\ script \in JobScripts
    /\ pc = "db_setup"
    /\ \E uri_ok \in BOOLEAN, connect_ok \in BOOLEAN, table_exists \in BOOLEAN :
         IF ~uri_ok THEN Exit("1") /\ abort_cause' = "config" /\ UNCHANGED db_conn
         ELSE IF ~connect_ok
         THEN Exit("1") /\ abort_cause' = "connect" /\ UNCHANGED db_conn
         ELSE IF ~table_exists
         THEN Exit("1") /\ abort_cause' = "table" /\ db_conn' = "open"
         ELSE /\ db_conn' = "open"
              /\ pc' = IF script = "collect_web3career" THEN "api_setup" ELSE "fetch"
              /\ UNCHANGED <<exit_status, abort_cause>>
    /\ inserted_count' = IF script = "scrape_cryptojobslist" /\ pc' = "fetch"
                         THEN 0 ELSE inserted_count
    /\ skipped_count' = IF script = "scrape_cryptojobslist" /\ pc' = "fetch"
                        THEN 0 ELSE skipped_count
    /\ api_error' = IF script = "scrape_cryptojobslist" /\ pc' = "fetch"
                    THEN FALSE ELSE api_error
    /\ calls' = IF db_conn' = "open"
                THEN [calls EXCEPT !.connect = @ + 1] ELSE calls
    /\ UNCHANGED <<script, pass_no, jobs_list, idx, total_processed, iter,
                   job_postings, txn, socialVars, orchVars, canonVars, histVars,
                   sentVars, raw_data, twiceVars, fetch_failed>>

\* the cleanup block of both job collectors; closing drops what is uncommitted
JobsFinally ==
    /\ script \in JobScripts
    /\ pc = "finally"
    /\ db_conn' = "closed"
    /\ txn' = {}
    /\ pc' = "finished"
    /\ calls' = [calls EXCEPT !.summary = @ + 1]
    /\ UNCHANGED <<script, pass_no, exit_status, jobs_list, idx, inserted_count,
                   skipped_count, total_processed, api_error, iter, job_postings,
                   socialVars, orchVars, canonVars, histVars, sentVars, raw_data,
                   twiceVars, runVars>>

\* the interpreter reaches the end of the file
ScriptEnd ==
    /\ pc = "finished"
    /\ script = "collect_web3career" => pass_no = 2
    /\ Exit("0")
    /\ UNCHANGED <<script, pass_no, jobs_list, idx, inserted_count, skipped_count,
                   total_processed, api_error, iter, jobsVars, socialVars, orchVars,
                   canonVars, histVars, sentVars, obsVars, twiceVars, runVars>>

-----------------------------------------------------------------------------
(* collect_web3career.py *)

Web3ApiSetup ==
    /\ script = "collect_web3career"
    /\ pc = "api_setup"
    /\ \E key_ok \in BOOLEAN :
         IF key_ok
         THEN /\ pc' = "fetch"
              /\ inserted_count' = 0
              /\ skipped_count' = 0
              /\ api_error' = FALSE
              /\ UNCHANGED <<exit_status, abort_cause>>
         ELSE /\ Exit("1")
              /\ abort_cause' = "config"
              /\ UNCHANGED <<inserted_count, skipped_count, api_error>>
    /\ UNCHANGED <<script, pass_no, jobs_list, idx, total_processed, iter, jobsVars,
                   socialVars, orchVars, canonVars, histVars, sentVars, obsVars, twiceVars, fetch_failed>>

\* a variant that takes the first element that is a list, wherever it is
ExtractFirstList(raw) ==
    IF raw.kind = "list" /\ \E i \in 1..Len(raw.items) : raw.items[i].kind = "list"
    THEN LET first == CHOOSE i \in 1..Len(raw.items) :
                          /\ raw.items[i].kind = "list"
                          /\ \A j \in 1..(i - 1) : raw.items[j].kind # "list"
         IN  raw.items[first].jobs
    ELSE <<>>

\* jobs_list = [], replaced by raw_data[2] when the response has the expected
\* structure (index 2 of the code is position 3 here)
ExtractJobs(raw) ==
    IF raw.kind = "list" /\ Len(raw.items) > 2 /\ raw.items[3].kind = "list"
    THEN raw.items[3].jobs
    ELSE <<>>

\* the request, the JSON parse and the extraction of raw_data[2]; responses
\* are the values response.json() may return
Web3FetchOn(responses) ==
    /\ script = "collect_web3career"
    /\ pc = "fetch"
    /\ \/ \E raw \in responses :
            /\ raw_data' = raw
            /\ jobs_list' = ExtractJobs(raw)  \* unexpected structure: warning only
            /\ idx' = 0
            /\ pc' = "loop"
            /\ UNCHANGED api_error
       \/ api_error' = TRUE /\ pc' = "finally" /\ UNCHANGED <<jobs_list, idx, raw_data>>
                                            \* HTTP, request or JSON error
    /\ fetch_failed' = api_error'
    /\ calls' = [calls EXCEPT !.request = @ + 1]
    /\ UNCHANGED <<script, pass_no, exit_status, inserted_count, skipped_count,
                   total_processed, iter, jobsVars, socialVars, orchVars, canonVars,
                   sentVars, twiceVars, abort_cause>>
    /\ store_at_start' = job_postings
    /\ faults' = {}

\* the insert of one canonical row with its rowcount check and handler,
\* common to both job collectors; insert_raises is a persistence error
InsertRow(row, insert_raises) ==
    IF insert_raises
    THEN /\ txn' = Rollback
         /\ skipped_count' = skipped_count + 1
         /\ faults' = faults \cup {idx + 1}
         /\ UNCHANGED inserted_count
    ELSE LET res == ExecuteInsert(row)
         IN  /\ txn' = res.txn
             /\ UNCHANGED faults
             /\ IF res.rowcount > 0
                THEN inserted_count' = inserted_count + 1 /\ UNCHANGED skipped_count
                ELSE skipped_count' = skipped_count + 1 /\ UNCHANGED inserted_count

Web3Fetch(batches) == Web3FetchOn(ApiResponses(batches))

\* one iteration of "for job_entry in jobs_list"
Web3ProcessEntry ==
    /\ script = "collect_web3career"
    /\ pc = "loop"
    /\ idx < Len(jobs_list)
    /\ LET c == Web3Canon(jobs_list[idx + 1])
       IN  \/ /\ c.outcome = "skip"
              /\ skipped_count' = skipped_count + 1
              /\ idx' = idx + 1
              /\ UNCHANGED <<inserted_count, txn, api_error, pc, faults>>
           \/ /\ c.outcome = "raise"       \* TypeError, caught by the outer handler
              /\ api_error' = TRUE
              /\ pc' = "finally"
              /\ UNCHANGED <<inserted_count, skipped_count, txn, idx, faults>>
           \/ /\ c.outcome = "row"
              /\ \E insert_raises \in BOOLEAN : InsertRow(c.row, insert_raises)
              /\ idx' = idx + 1
              /\ UNCHANGED <<api_error, pc>>
    /\ UNCHANGED <<script, pass_no, exit_status, jobs_list, total_processed, iter,
                   db_conn, job_postings, socialVars, orchVars, canonVars,
                   store_at_start, sentVars, obsVars, twiceVars, runVars>>

\* db_conn.commit() after the loop
Web3Commit ==
    /\ script = "collect_web3career"
    /\ pc = "loop"
    /\ idx = Len(jobs_list)
    /\ job_postings' = Commit
    /\ txn' = {}
    /\ pc' = "finally"
    /\ calls' = [calls EXCEPT !.commit = @ + 1]
    /\ UNCHANGED <<script, pass_no, exit_status, jobs_list, idx, inserted_count,
                   skipped_count, total_processed, api_error, iter, db_conn,
                   socialVars, orchVars, canonVars, histVars, sentVars, raw_data,
                   twiceVars, runVars>>

\* the file holds the script body twice: after the first cleanup block the
\* interpreter runs the second copy, from its imports on
Web3Restart ==
    /\ script = "collect_web3career"
    /\ pc = "finished"
    /\ pass_no = 1
    /\ pass_no' = 2
    /\ pc' = "db_setup"
    /\ db_conn' = "none"
    /\ fetch_failed' = FALSE
    /\ UNCHANGED <<script, exit_status, jobs_list, idx, inserted_count, skipped_count,
                   total_processed, api_error, iter, job_postings, txn, socialVars,
                   orchVars, canonVars, histVars, sentVars, obsVars, twiceVars, abort_cause>>

-----------------------------------------------------------------------------
(* scrape_cryptojobslist.py *)

\* the page fetch, the parse and the row selection
CjlFetch(batches) ==
    /\ script = "scrape_cryptojobslist"
    /\ pc = "fetch"
    /\ \/ \E batch \in batches :
            jobs_list' = batch /\ idx' = 0 /\ pc' = "loop" /\ UNCHANGED api_error
       \/ api_error' = TRUE /\ pc' = "finally" /\ UNCHANGED <<jobs_list, idx>>
                                            \* HTTP error or no table body
    /\ fetch_failed' = api_error'
    /\ calls' = [calls EXCEPT !.request = @ + 1]
    /\ UNCHANGED <<script, pass_no, exit_status, inserted_count, skipped_count,
                   total_processed, iter, jobsVars, socialVars, orchVars, canonVars,
                   sentVars, raw_data, twiceVars, abort_cause>>
    /\ store_at_start' = job_postings
    /\ faults' = {}

\* one iteration of "for row_index, row in enumerate(job_rows)"
CjlProcessRow ==
    /\ script = "scrape_cryptojobslist"
    /\ pc = "loop"
    /\ idx < Len(jobs_list)
    /\ LET c == CjlCanon(jobs_list[idx + 1])
       IN  \/ /\ c.outcome = "ad"
              /\ UNCHANGED <<inserted_count, skipped_count, txn, faults>>
           \/ /\ c.outcome = "skip"
              /\ skipped_count' = skipped_count + 1
              /\ UNCHANGED <<inserted_count, txn, faults>>
           \/ /\ c.outcome = "row"
              /\ \E insert_raises \in BOOLEAN : InsertRow(c.row, insert_raises)
    /\ idx' = idx + 1
    /\ UNCHANGED <<script, pc, pass_no, exit_status, jobs_list, total_processed,
                   api_error, iter, db_conn, job_postings, socialVars, orchVars,
                   canonVars, store_at_start, sentVars, obsVars, twiceVars, runVars>>

\* the conditional commit after the loop
CjlCommit ==
    /\ script = "scrape_cryptojobslist"
    /\ pc = "loop"
    /\ idx = Len(jobs_list)
    /\ job_postings' = IF inserted_count > 0 THEN Commit ELSE job_postings
    /\ txn' = IF inserted_count > 0 THEN {} ELSE txn
    /\ pc' = "finally"
    /\ calls' = IF inserted_count > 0 THEN [calls EXCEPT !.commit = @ + 1] ELSE calls
    /\ UNCHANGED <<script, pass_no, exit_status, jobs_list, idx, inserted_count,
                   skipped_count, total_processed, api_error, iter, db_conn,
                   socialVars, orchVars, canonVars, histVars, sentVars, raw_data,
                   twiceVars, runVars>>

-----------------------------------------------------------------------------
(* Specification of the job collectors. *)

\* no process is alive, the table is empty and the collection has no unique
\* index yet
InitProcess ==
    /\ script = "idle"
    /\ pc = "idle"
    /\ pass_no = 1
    /\ exit_status = "none"
    /\ db_conn = "none"
    /\ job_postings = {}
    /\ txn = {}
    /\ jobs_list = <<>>
    /\ idx = 0
    /\ inserted_count = 0
    /\ skipped_count = 0
    /\ total_processed = 0
    /\ api_error = FALSE
    /\ mongo_client = "none"
    /\ unique_index = FALSE
    /\ iter = 0
    /\ store_at_start = {}
    /\ faults = {}
    /\ documents_to_analyze = <<>>
    /\ updated_count = 0
    /\ error_count = 0
    /\ utcnow = 0
    /\ abort_cause = "none"
    /\ fetch_failed = FALSE
    /\ raw_data = NoResponse
    /\ calls = NoCalls

\* the record of a first run that has not ended yet
NoRun == [ended |-> FALSE, job_postings |-> {}, social_media_posts |-> <<>>]

\* no repeated run on fixed vendor data is under study
InitNoRepeat ==
    /\ vendor_data = [for |-> "none", data |-> <<>>]
    /\ run_no = 0
    /\ first_run = NoRun

\* ... and the collection is empty
InitIdle == InitProcess /\ InitNoRepeat /\ social_media_posts = <<>>

\* the orchestrator is not part of the runs under study
InitNoOrch ==
    /\ stage_status = <<>>
    /\ stage_idx = 0
    /\ orch_pc = "idle"
    /\ orch_exit = "none"
    /\ stage_out = <<>>

\* no raw record is under study
InitNoCanon ==
    /\ raw_in = NotADict
    /\ canon_out = [outcome |-> "none"]

InitCommon == InitIdle /\ InitNoOrch /\ InitNoCanon

Web3FetchJobs == Web3Fetch(SeqsUpTo(RawWeb3Jobs, MaxBatch))

CjlFetchJobs == CjlFetch(SeqsUpTo(RawCjlRows, MaxBatch))

StartJobScript == \E s \in JobScripts : StartScript(s) /\ UNCHANGED twiceVars

NextJobs ==
    \/ StartJobScript
    \/ JobsDbSetup
    \/ Web3ApiSetup
    \/ Web3FetchJobs
    \/ Web3ProcessEntry
    \/ Web3Commit
    \/ Web3Restart
    \/ CjlFetchJobs
    \/ CjlProcessRow
    \/ CjlCommit
    \/ JobsFinally
    \/ ScriptEnd

SpecJobs == InitCommon /\ [][NextJobs]_vars

-----------------------------------------------------------------------------
(* The document store: the social_media_posts collection. *)

SocialScripts == {"collect_reddit", "collect_twitter"}

Ids == {"s1", "s2"}

NumSubreddits == 3
NumKeywords == 4
NumQueries == 4

KeyOf(d) == <<d.source, d.source_specific_id>>

HasKey(coll, d) == \E i \in 1..Len(coll) : KeyOf(coll[i]) = KeyOf(d)

HasDuplicateKeys(coll) ==
    \E i, j \in 1..Len(coll) : i # j /\ KeyOf(coll[i]) = KeyOf(coll[j])

\* the document as it is stored: the driver gives it an _id no other
\* document of the collection has (here its place in insertion order)
WithId(d, n) ==
    [f \in DOMAIN d \cup {"_id"} |-> IF f = "_id" THEN n ELSE d[f]]

\* insert_many(docs, ordered=False): every document is tried; one that
\* collides with the unique index is rejected and the others are stored;
\* errors > 0 means BulkWriteError is raised once all were tried
RECURSIVE InsertMany(_, _)
InsertMany(coll, docs) ==
    IF docs = <<>> THEN [coll |-> coll, inserted |-> 0, errors |-> 0]
    ELSE LET reject == unique_index /\ HasKey(coll, Head(docs))
             rest == InsertMany(IF reject THEN coll
                                ELSE Append(coll, WithId(Head(docs), Len(coll) + 1)),
                                Tail(docs))
         IN  [coll |-> rest.coll,
              inserted |-> rest.inserted + (IF reject THEN 0 ELSE 1),
              errors |-> rest.errors + (IF reject THEN 1 ELSE 0)]

\* the database setup block of collect_reddit.py, with the unique index
RedditDbSetup ==
    /\ script = "collect_reddit"
    /\ pc = "db_setup"
    /\ \E uri_ok \in BOOLEAN, connect_ok \in BOOLEAN :
         IF ~uri_ok
         THEN /\ Exit("1")
              /\ abort_cause' = "config"
              /\ UNCHANGED <<mongo_client, unique_index>>
         ELSE IF ~connect_ok
         THEN /\ Exit("1")
              /\ abort_cause' = "connect"
              /\ mongo_client' = "closed"
              /\ UNCHANGED unique_index
         ELSE IF ~unique_index /\ HasDuplicateKeys(social_media_posts)
         THEN /\ Exit("1")
              /\ abort_cause' = "index"
              /\ mongo_client' = "closed"
              /\ UNCHANGED unique_index
         ELSE /\ mongo_client' = "open"
              /\ unique_index' = TRUE
              /\ pc' = "api_setup"
              /\ UNCHANGED <<exit_status, abort_cause>>
    /\ UNCHANGED <<script, pass_no, jobs_list, idx, inserted_count, skipped_count,
                   total_processed, api_error, iter, social_media_posts, jobsVars,
                   orchVars, canonVars, histVars, sentVars, obsVars, twiceVars, fetch_failed>>

\* the database setup block of collect_twitter.py: its two indexes are not unique
TwitterDbSetup ==
    /\ script = "collect_twitter"
    /\ pc = "db_setup"
    /\ \E uri_ok \in BOOLEAN, connect_ok \in BOOLEAN :
         IF ~uri_ok THEN Exit("1") /\ abort_cause' = "config" /\ UNCHANGED mongo_client
         ELSE IF ~connect_ok
         THEN Exit("1") /\ abort_cause' = "connect" /\ mongo_client' = "closed"
         ELSE /\ mongo_client' = "open"
              /\ pc' = "api_setup"
              /\ UNCHANGED <<exit_status, abort_cause>>
    /\ UNCHANGED <<script, pass_no, jobs_list, idx, inserted_count, skipped_count,
                   total_processed, api_error, iter, social_media_posts, unique_index,
                   jobsVars, orchVars, canonVars, histVars, sentVars, obsVars, twiceVars, fetch_failed>>

\* the vendor client setup of both social collectors: a missing credential
\* leaves through sys.exit inside the try, a failing client constructor
\* through the handler that closes the connection
SocialApiSetup ==
    /\ script \in SocialScripts
    /\ pc = "api_setup"
    /\ \E creds_ok \in BOOLEAN, client_ok \in BOOLEAN :
         IF ~creds_ok
         THEN Exit("1") /\ abort_cause' = "config" /\ UNCHANGED <<mongo_client, iter>>
         ELSE IF ~client_ok
         THEN /\ Exit("1")
              /\ abort_cause' = "client"
              /\ mongo_client' = "closed"
              /\ UNCHANGED iter
         ELSE /\ pc' = IF script = "collect_reddit" THEN "subreddits" ELSE "queries"
              /\ iter' = 0
              /\ UNCHANGED <<exit_status, mongo_client, abort_cause>>
    /\ inserted_count' = 0
    /\ skipped_count' = 0
    /\ total_processed' = 0
    /\ UNCHANGED <<script, pass_no, jobs_list, idx, api_error, social_media_posts,
                   unique_index, jobsVars, orchVars, canonVars, histVars, sentVars, obsVars, twiceVars,
                   fetch_failed>>

\* the cleanup block of both social collectors
SocialFinally ==
    /\ script \in SocialScripts
    /\ pc = "finally"
    /\ mongo_client' = "closed"
    /\ pc' = "finished"
    /\ UNCHANGED <<script, pass_no, exit_status, jobs_list, idx, inserted_count,
                   skipped_count, total_processed, api_error, iter,
                   social_media_posts, unique_index, jobsVars, orchVars, canonVars,
                   histVars, sentVars, obsVars, twiceVars, runVars>>

-----------------------------------------------------------------------------
(* collect_reddit.py *)

\* the vendor side: the selftext of a submission, the text of a tweet
TextOf(id) == IF id = "s1" THEN S_great ELSE S_hi_padded

create_reddit_doc(id, source_method) ==
    [source |-> "reddit", source_method |-> source_method, source_specific_id |-> id,
     text |-> TextOf(id)]

\* a handler that gives the run up when one request fails
RequestFailedFatal ==
    /\ fetch_failed' = TRUE
    /\ Exit("1")
    /\ UNCHANGED <<iter, mongo_client, total_processed, inserted_count, skipped_count,
                   social_media_posts>>

\* the handler of one request (sub_err, search_err, TweepyException, e_inner):
\* the error is printed and the loop goes on with the next request
RequestFailed ==
    /\ fetch_failed' = TRUE
    /\ iter' = iter + 1
    /\ UNCHANGED <<pc, exit_status, mongo_client, total_processed, inserted_count,
                   skipped_count, social_media_posts>>

\* the request was answered and its batch handled
RequestDone ==
    /\ iter' = iter + 1
    /\ UNCHANGED <<pc, exit_status, mongo_client, fetch_failed>>

\* the ids of a listing, each kept at its first occurrence
RECURSIVE UniqueInBatch(_, _)
UniqueInBatch(ids, seen) ==
    IF ids = <<>> THEN <<>>
    ELSE IF Head(ids) \in seen THEN UniqueInBatch(Tail(ids), seen)
    ELSE <<Head(ids)>> \o UniqueInBatch(Tail(ids), seen \cup {Head(ids)})

\* the counting after insert_many of posts_to_insert: the issue of the call
\* (res) goes to the success path or, when it raised, to the generic handler;
\* skipped_base is what the success path subtracts the inserted ids from
CountBulkInsert(res, posts_to_insert, skipped_base) ==
    IF posts_to_insert = <<>>
    THEN UNCHANGED <<inserted_count, skipped_count, social_media_posts>>
    ELSE /\ social_media_posts' = res.coll
         /\ IF res.errors = 0
            THEN /\ inserted_count' = inserted_count + res.inserted
                 /\ skipped_count' = skipped_count + (skipped_base - res.inserted)
            ELSE /\ skipped_count' = skipped_count + Len(posts_to_insert)
                 /\ UNCHANGED inserted_count

\* one iteration of "for sub_name in target_subreddits"; listing is what
\* subreddit.new yields, raises an error while it is read or shaped
RedditSubredditOn(listings) ==
    /\ script = "collect_reddit"
    /\ pc = "subreddits"
    /\ iter < NumSubreddits
    /\ \/ \E listing \in listings :
            LET posts_to_insert ==
                    [i \in 1..Len(listing) |->
                        create_reddit_doc(listing[i], "subreddit_new")]
                processed_in_batch == Len(listing)
            IN  /\ total_processed' = total_processed + processed_in_batch
                /\ CountBulkInsert(InsertMany(social_media_posts, posts_to_insert),
                                   posts_to_insert, processed_in_batch)
                /\ RequestDone
       \/ RequestFailed
    /\ UNCHANGED <<script, pass_no, jobs_list, idx, api_error, unique_index,
                   jobsVars, orchVars, canonVars, histVars, sentVars, obsVars, twiceVars, abort_cause>>

RedditSubreddit == RedditSubredditOn(SeqsUpTo(Ids, MaxBatch))

\* the subreddit loop is over, or the handler of the whole phase ran
RedditToSearch ==
    /\ script = "collect_reddit"
    /\ pc = "subreddits"
    /\ pc' = "search"
    /\ iter' = 0
    /\ UNCHANGED <<script, pass_no, exit_status, jobs_list, idx, inserted_count,
                   skipped_count, total_processed, api_error, socialVars, jobsVars,
                   orchVars, canonVars, histVars, sentVars, obsVars, twiceVars, runVars>>

\* one iteration of "for keyword in search_keywords"
RedditSearchOn(listings) ==
    /\ script = "collect_reddit"
    /\ pc = "search"
    /\ iter < NumKeywords
    /\ \/ \E results \in listings :
            LET unique == UniqueInBatch(results, {})
                posts_to_insert ==
                    [i \in 1..Len(unique) |-> create_reddit_doc(unique[i], "search")]
                processed_in_batch == Len(results)
            IN  /\ total_processed' = total_processed + processed_in_batch
                /\ CountBulkInsert(InsertMany(social_media_posts, posts_to_insert),
                                   posts_to_insert, Len(posts_to_insert))
                /\ RequestDone
       \/ RequestFailed
    /\ UNCHANGED <<script, pass_no, jobs_list, idx, api_error, unique_index,
                   jobsVars, orchVars, canonVars, histVars, sentVars, obsVars, twiceVars, abort_cause>>

RedditSearch == RedditSearchOn(SeqsUpTo(Ids, MaxBatch))

\* the search loop is over, or the handler of the whole phase ran
RedditToFinally ==
    /\ script = "collect_reddit"
    /\ pc = "search"
    /\ pc' = "finally"
    /\ UNCHANGED <<script, pass_no, exit_status, jobs_list, idx, inserted_count,
                   skipped_count, total_processed, api_error, iter, socialVars,
                   jobsVars, orchVars, canonVars, histVars, sentVars, obsVars, twiceVars, runVars>>

-----------------------------------------------------------------------------
(* collect_twitter.py *)

tweet_doc(id) ==
    [source |-> "twitter", source_method |-> "search_recent",
     source_specific_id |-> id, text |-> TextOf(id)]

\* posts_collection.find_one({"source": "twitter", "source_specific_id": id})
FindOne(coll, id) ==
    \E i \in 1..Len(coll) :
        coll[i].source = "twitter" /\ coll[i].source_specific_id = id

\* the tweets of a response that find_one does not find in the collection
RECURSIVE NotExisting(_)
NotExisting(data) ==
    IF data = <<>> THEN <<>>
    ELSE IF FindOne(social_media_posts, Head(data)) THEN NotExisting(Tail(data))
    ELSE <<tweet_doc(Head(data))>> \o NotExisting(Tail(data))

\* one iteration of "for query in search_queries"; a response without data
\* (data = <<>>) changes nothing
TwitterQueryOn(responses) ==
    /\ script = "collect_twitter"
    /\ pc = "queries"
    /\ iter < NumQueries
    /\ \/ \E data \in responses :
            LET documents_to_insert == NotExisting(data)
                res == InsertMany(social_media_posts, documents_to_insert)
            IN  /\ total_processed' = total_processed + Len(data)
                /\ skipped_count' =
                       skipped_count + (Len(data) - Len(documents_to_insert))
                /\ social_media_posts' =
                       IF documents_to_insert = <<>> THEN social_media_posts
                       ELSE res.coll
                /\ inserted_count' =
                       IF documents_to_insert # <<>> /\ res.errors = 0
                       THEN inserted_count + res.inserted ELSE inserted_count
                /\ RequestDone
       \/ RequestFailed
    /\ UNCHANGED <<script, pass_no, jobs_list, idx, api_error, unique_index,
                   jobsVars, orchVars, canonVars, histVars, sentVars, obsVars, twiceVars, abort_cause>>

TwitterQuery == TwitterQueryOn(SeqsUpTo(Ids, MaxBatch))

\* the query loop is over, or the handler of the whole loop ran
TwitterToFinally ==
    /\ script = "collect_twitter"
    /\ pc = "queries"
    /\ pc' = "finally"
    /\ UNCHANGED <<script, pass_no, exit_status, jobs_list, idx, inserted_count,
                   skipped_count, total_processed, api_error, iter, socialVars,
                   jobsVars, orchVars, canonVars, histVars, sentVars, obsVars, twiceVars, runVars>>

-----------------------------------------------------------------------------
(* Specification of the social collectors. *)

StartSocialScript == \E s \in SocialScripts : StartScript(s) /\ UNCHANGED twiceVars

NextSocial ==
    \/ StartSocialScript
    \/ RedditDbSetup
    \/ TwitterDbSetup
    \/ SocialApiSetup
    \/ RedditSubreddit
    \/ RedditToSearch
    \/ RedditSearch
    \/ RedditToFinally
    \/ TwitterQuery
    \/ TwitterToFinally
    \/ SocialFinally
    \/ ScriptEnd

SpecSocial == InitCommon /\ [][NextSocial]_vars

-----------------------------------------------------------------------------
(* process_sentiment.py: the enrichment pass over social_media_posts. *)

process_limit == 50

\* doc.get(f, default)
Get(d, f, default) == IF f \in DOMAIN d THEN d[f] ELSE default

\* a query that selects every document
MatchAll(d) == TRUE

\* query = {"sentiment": {"$exists": False}}
query(d) == "sentiment" \notin DOMAIN d

\* list(posts_collection.find(query).limit(n)): the first n matches, in the
\* natural order of the collection
RECURSIVE FindLimit(_, _)
FindLimit(coll, n) ==
    IF coll = <<>> \/ n = 0 THEN <<>>
    ELSE IF query(Head(coll)) THEN <<Head(coll)>> \o FindLimit(Tail(coll), n - 1)
    ELSE FindLimit(Tail(coll), n)

\* a guard that measures the text without trimming it
SkipUntrimmed(text) ==
    \/ text = <<>> \/ text = NoneVal
    \/ text = NotAStr
    \/ Len(text) < 5

\* "not text_to_analyze or not isinstance(text_to_analyze, str) or
\* len(text_to_analyze.strip()) < 5"
SkipText(text) ==
    \/ text = <<>> \/ text = NoneVal
    \/ text = NotAStr
    \/ Len(Strip(text)) < 5

\* analyzer.polarity_scores(text): the scores are a function of the text
\* alone (here: of the words of the lexicon it holds)
polarity_scores(text) ==
    IF SeqContains(text, "g") /\ SeqContains(text, "t") THEN <<"compound", "pos">>
    ELSE IF SeqContains(text, "b") THEN <<"compound", "neg">>
    ELSE <<"compound", "neu">>

\* an update that replaces the document by the two new fields
ReplaceDocument(d, vs, at) ==
    [_id |-> d._id, sentiment |-> vs, sentiment_analyzed_at |-> at]

\* {"$set": {"sentiment": vs, "sentiment_analyzed_at": at}} on one document
SetSentiment(d, vs, at) ==
    [f \in DOMAIN d \cup {"sentiment", "sentiment_analyzed_at"} |->
        IF f = "sentiment" THEN vs
        ELSE IF f = "sentiment_analyzed_at" THEN at
        ELSE d[f]]

\* update_one({"_id": doc_id}, {"$set": ...}): the new collection, and
\* modified_count
UpdateOne(coll, doc_id, vs, at) ==
    LET hit == {i \in 1..Len(coll) : coll[i]._id = doc_id}
        new == [i \in 1..Len(coll) |->
                   IF i \in hit THEN SetSentiment(coll[i], vs, at) ELSE coll[i]]
    IN  [coll |-> new, modified_count |-> IF new # coll THEN 1 ELSE 0]

\* a per-document handler that lets the error end the loop
AbortPass == "finally"

\* "except Exception as analysis_err" inside the loop: the for statement
\* goes on with the next document
NextDocument == "loop"

\* the try block up to the analyzer: MONGO_URI, MongoClient, ismaster, VADER.
\* sys.exit(1) runs the finally block on its way out; a failing ismaster or
\* analyzer goes through a handler that prints, and then the finally block
SentimentSetup ==
    /\ script = "process_sentiment"
    /\ pc = "db_setup"
    /\ \E uri_ok \in BOOLEAN, connect_ok \in BOOLEAN, vader_ok \in BOOLEAN :
         IF ~uri_ok
         THEN pc' = "finally_exit" /\ abort_cause' = "config" /\ UNCHANGED mongo_client
         ELSE IF ~connect_ok
         THEN pc' = "finally" /\ abort_cause' = "connect" /\ mongo_client' = "open"
         ELSE IF ~vader_ok
         THEN pc' = "finally" /\ abort_cause' = "analyzer" /\ mongo_client' = "open"
         ELSE pc' = "query" /\ mongo_client' = "open" /\ UNCHANGED abort_cause
    /\ UNCHANGED <<script, pass_no, exit_status, jobs_list, idx, inserted_count,
                   skipped_count, total_processed, api_error, iter,
                   social_media_posts, unique_index, jobsVars, orchVars, canonVars,
                   histVars, sentVars, obsVars, twiceVars, fetch_failed>>

\* the find, and the test of its result; a failing find is caught by the
\* handlers of the setup
SentimentQuery ==
    /\ script = "process_sentiment"
    /\ pc = "query"
    /\ \/ /\ documents_to_analyze' = FindLimit(social_media_posts, process_limit)
          /\ pc' = IF documents_to_analyze' = <<>> THEN "finally" ELSE "loop"
          /\ UNCHANGED fetch_failed
       \/ /\ fetch_failed' = TRUE
          /\ pc' = "finally"
          /\ UNCHANGED documents_to_analyze
    /\ idx' = 0
    /\ updated_count' = 0
    /\ error_count' = 0
    /\ UNCHANGED <<script, pass_no, exit_status, jobs_list, inserted_count,
                   skipped_count, total_processed, api_error, iter, socialVars,
                   jobsVars, orchVars, canonVars, histVars, utcnow, abort_cause,
                   obsVars, twiceVars>>

\* one iteration of "for doc in documents_to_analyze"; failure tells whether
\* polarity_scores or update_one raised
SentimentProcessDoc ==
    /\ script = "process_sentiment"
    /\ pc = "loop"
    /\ idx < Len(documents_to_analyze)
    /\ LET doc == documents_to_analyze[idx + 1]
           doc_id == Get(doc, "_id", NoneVal)
           text_to_analyze == Get(doc, "text", <<>>)
       IN  IF SkipText(text_to_analyze)
           THEN /\ idx' = idx + 1
                /\ UNCHANGED <<pc, social_media_posts, updated_count, error_count>>
           ELSE \E failure \in {"none", "analysis", "update"} :
                  IF failure = "none"
                  THEN LET vs == polarity_scores(text_to_analyze)
                           update_result ==
                               UpdateOne(social_media_posts, doc_id, vs, utcnow)
                       IN  /\ social_media_posts' = update_result.coll
                           /\ updated_count' =
                                  updated_count + update_result.modified_count
                           /\ idx' = idx + 1
                           /\ UNCHANGED <<pc, error_count>>
                  ELSE /\ error_count' = error_count + 1
                       /\ pc' = NextDocument
                       /\ idx' = idx + 1
                       /\ UNCHANGED <<social_media_posts, updated_count>>
    /\ UNCHANGED <<script, pass_no, exit_status, jobs_list, inserted_count,
                   skipped_count, total_processed, api_error, iter, mongo_client,
                   unique_index, jobsVars, orchVars, canonVars, histVars,
                   documents_to_analyze, utcnow, runVars, obsVars, twiceVars>>

\* the analysis summary after the loop
SentimentSummary ==
    /\ script = "process_sentiment"
    /\ pc = "loop"
    /\ idx = Len(documents_to_analyze)
    /\ pc' = "finally"
    /\ UNCHANGED <<script, pass_no, exit_status, jobs_list, idx, inserted_count,
                   skipped_count, total_processed, api_error, iter, socialVars,
                   jobsVars, orchVars, canonVars, histVars, sentVars, obsVars, twiceVars, runVars>>

\* the finally block; when sys.exit(1) is on its way out the process then
\* ends with that code, otherwise the end of the file is reached
SentimentFinally ==
    /\ script = "process_sentiment"
    /\ pc \in {"finally", "finally_exit"}
    /\ mongo_client' = IF mongo_client = "open" THEN "closed" ELSE mongo_client
    /\ IF pc = "finally_exit" THEN Exit("1")
       ELSE pc' = "finished" /\ UNCHANGED exit_status
    /\ UNCHANGED <<script, pass_no, jobs_list, idx, inserted_count, skipped_count,
                   total_processed, api_error, iter, social_media_posts,
                   unique_index, jobsVars, orchVars, canonVars, histVars, sentVars, obsVars, twiceVars,
                   runVars>>

-----------------------------------------------------------------------------
(* Specification of the enrichment pass: runs of process_sentiment.py on a  *)
(* collection as the collectors, or another writer of the database, left    *)
(* it.                                                                      *)

PostIds == <<"s1", "s2", "s3", "s4">>

\* the texts of the stored documents: none, empty, null, not a string, short
\* once trimmed, short, and of the least length that is analysed
StoredTexts == {<<>>, NoneVal, NotAStr, S_hi_padded, S_good, S_great}

\* documents as they are stored before any pass wrote to them
PlainPosts ==
    {[source |-> "reddit", source_method |-> "search"]} \cup
    {[source |-> "reddit", source_method |-> "search", text |-> t] : t \in StoredTexts}

\* a document that a pass before the first one of the model has analysed
AnalysedPost ==
    SetSentiment([source |-> "reddit", source_method |-> "search", text |-> S_great],
                 polarity_scores(S_great), 0)

\* the k-th document of the collection, with the submission id and the _id
\* of its place
Stored(d, k) ==
    [f \in DOMAIN d \cup {"source_specific_id", "_id"} |->
        IF f = "source_specific_id" THEN PostIds[k]
        ELSE IF f = "_id" THEN k
        ELSE d[f]]

StoredCollections ==
    {[k \in 1..Len(c) |-> Stored(c[k], k)] :
        c \in SeqsUpTo(PlainPosts \cup {AnalysedPost}, MaxDocs)}

InitSentiment ==
    /\ InitProcess
    /\ InitNoRepeat
    /\ InitNoOrch
    /\ InitNoCanon
    /\ social_media_posts \in StoredCollections

StartSentiment ==
    utcnow < MaxRuns /\ StartScript("process_sentiment") /\ UNCHANGED twiceVars

NextSentiment ==
    \/ StartSentiment
    \/ SentimentSetup
    \/ SentimentQuery
    \/ SentimentProcessDoc
    \/ SentimentSummary
    \/ SentimentFinally
    \/ ScriptEnd

SpecSentiment == InitSentiment /\ [][NextSentiment]_vars

-----------------------------------------------------------------------------
(* One invocation of a job collector on an empty table, fed ten records    *)
(* with ten different URLs.                                                *)

IdChars == <<"a", "b", "c", "d", "e", "f", "g", "h", "i", "j">>

UrlNo(i) == <<"https://other.example", "/j", IdChars[i]>>

TenWeb3Jobs == [i \in 1..10 |-> W(S_Dev, UrlNo(i), TagList(<<>>))]

TenCjlRows == [i \in 1..10 |-> R(S_Dev, UrlNo(i), <<>>, NoneVal)]

Web3FetchTen == Web3Fetch({TenWeb3Jobs})

CjlFetchTen == CjlFetch({TenCjlRows})

StartOnce == pc = "idle" /\ UNCHANGED twiceVars /\ \E s \in JobScripts : StartScript(s)

NextTen ==
    \/ StartOnce
    \/ JobsDbSetup
    \/ Web3ApiSetup
    \/ Web3FetchTen
    \/ Web3ProcessEntry
    \/ Web3Commit
    \/ Web3Restart
    \/ CjlFetchTen
    \/ CjlProcessRow
    \/ CjlCommit
    \/ JobsFinally
    \/ ScriptEnd

SpecTen == InitCommon /\ [][NextTen]_vars

-----------------------------------------------------------------------------
(* The canonicalisers on their own: every raw record of a bounded family   *)
(* is put through the loop body of the collector it belongs to.            *)

TagWords == {S_Remote, S_remote, S_REMOTE, S_defi, <<" ">> \o S_Remote}

TagLists == SeqsUpTo(TagWords, MaxBatch)

Web3Locations == {NoneVal, S_Remote, S_Berlin}

CjlLocTexts == {NoneVal, S_Remote, <<Pin, " ">> \o S_Remote, <<Pin>> \o S_Berlin, S_100k}

AllWeb3Entries ==
    {[W(t, U1, tg) EXCEPT !.location = loc] :
        t \in {S_Dev, NoneVal},
        tg \in {TagList(l) : l \in TagLists} \cup {[kind |-> "null", items |-> <<>>]},
        loc \in Web3Locations}

AllCjlRows ==
    {[R(S_Dev, <<"/j1">>, tg, loc) EXCEPT !.salary_text = sal] :
        tg \in TagLists, loc \in CjlLocTexts, sal \in {NoneVal, S_100k}}

IsWeb3Entry(raw) == "isdict" \in DOMAIN raw

InitCanon ==
    /\ InitIdle
    /\ InitNoOrch
    /\ raw_in \in AllWeb3Entries \cup AllCjlRows
    /\ canon_out = [outcome |-> "none"]

Web3Canonicalise ==
    /\ canon_out.outcome = "none"
    /\ IsWeb3Entry(raw_in)
    /\ canon_out' = Web3Canon(raw_in)
    /\ UNCHANGED <<procVars, jobsVars, socialVars, orchVars, raw_in, histVars, sentVars, obsVars, twiceVars, runVars>>

CjlCanonicalise ==
    /\ canon_out.outcome = "none"
    /\ ~IsWeb3Entry(raw_in)
    /\ canon_out' = CjlCanon(raw_in)
    /\ UNCHANGED <<procVars, jobsVars, socialVars, orchVars, raw_in, histVars, sentVars, obsVars, twiceVars, runVars>>

NextCanon == Web3Canonicalise \/ CjlCanonicalise

SpecCanon == InitCanon /\ [][NextCanon]_vars

\* the tags of the raw record as the collector reads them
TagsOf(raw) ==
    IF IsWeb3Entry(raw)
    THEN IF raw.tags.kind = "list" THEN raw.tags.items ELSE <<>>
    ELSE CjlTags(raw)

RemoteExpected(raw, row) ==
    \/ \E i \in 1..Len(TagsOf(raw)) : Lower(TagsOf(raw)[i]) = S_remote
    \/ row.location = S_Remote

\* C7: the row a collector makes of a raw record has is_remote true when a
\* tag equals "remote" ignoring case or the row's location equals "Remote",
\* and false otherwise.
C7_IsRemoteRule ==
    canon_out.outcome = "row"
    => canon_out.row.is_remote =
           IF RemoteExpected(raw_in, canon_out.row) THEN "true" ELSE "false"

-----------------------------------------------------------------------------
(* Claims about the job collectors. *)

CanonOf(e) == IF script = "collect_web3career" THEN Web3Canon(e) ELSE CjlCanon(e)

RowAt(store, u) == CHOOSE r \in store : r.job_url = u

HasUrl(store, u) == \E r \in store : r.job_url = u

\* a pass went through its whole record loop, its commit and its cleanup
PassCompleted ==
    /\ script \in JobScripts
    /\ pc = "finished"
    /\ ~api_error
    /\ idx = Len(jobs_list)

UniqueJobUrl == \A r1, r2 \in Visible : r1.job_url = r2.job_url => r1 = r2

NoOverwrite == \A r \in job_postings : r \in job_postings'

\* C2: job_postings (with the rows of the open transaction) never holds two
\* rows with one job_url, and no step of either collector changes or removes
\* a committed row: an insert on a present job_url is a no-op.
C2_JobUrlSoleKey == [](UniqueJobUrl) /\ [][NoOverwrite]_vars

\* the scraper has met a URL that the API collector stored under another
\* title, and skipped it
C2_Witness ==
    /\ script = "scrape_cryptojobslist"
    /\ pc = "loop"
    /\ idx > 0
    /\ faults = {}
    /\ skipped_count > 0
    /\ LET c == CjlCanon(jobs_list[idx])
       IN  /\ c.outcome = "row"
           /\ \E r \in job_postings :
                /\ r.job_url = c.row.job_url
                /\ r.source = "Web3.Career"
                /\ r.title # c.row.title

\* C3: a pass over ten records with ten new, different URLs in which exactly
\* one insert raised ends with inserted_count = 9 and skipped_count = 1, and
\* the nine other rows are committed.
C3_OneFailureOfTen ==
    (/\ PassCompleted
     /\ Len(jobs_list) = 10
     /\ Cardinality(faults) = 1
     /\ \A i \in 1..10 :
          /\ CanonOf(jobs_list[i]).outcome = "row"
          /\ ~HasUrl(store_at_start, CanonOf(jobs_list[i]).row.job_url)
          /\ \A j \in 1..10 :
               CanonOf(jobs_list[j]).row.job_url = CanonOf(jobs_list[i]).row.job_url
                   => i = j)
    => /\ inserted_count = 9
       /\ skipped_count = 1
       /\ \A i \in (1..10) \ faults : CanonOf(jobs_list[i]).row \in job_postings

Blank(x) == x = NoneVal \/ Strip(x) = <<>>

MissingRequired(e) ==
    IF script = "collect_web3career"
    THEN e.isdict /\ (Blank(e.title) \/ Blank(e.apply_url))
    ELSE ~e.ad /\ (Blank(e.title_text) \/ Blank(e.href))

\* C6: a loop iteration over a job record whose title or URL is missing or
\* blank adds one to skipped_count and stores no row.
C6_MissingFieldSkipped ==
    [][(/\ script \in JobScripts
        /\ pc = "loop"
        /\ idx' = idx + 1
        /\ MissingRequired(jobs_list[idx + 1]))
       => (skipped_count' = skipped_count + 1 /\ txn' = txn)]_vars

-----------------------------------------------------------------------------
(* Claims about the social collectors. *)

\* C1: whatever runs of the Reddit and Twitter collectors took place, the
\* collection holds at most one document for each pair
\* (source, source_specific_id).
C1_UniqueSourceId == ~HasDuplicateKeys(social_media_posts)

\* C4: when a social collector has printed its final summary,
\* inserted_count + skipped_count equals total_processed, the number of
\* records the run went through.
C4_CountsAddUp ==
    (script \in SocialScripts /\ pc = "finished")
    => inserted_count + skipped_count = total_processed

-----------------------------------------------------------------------------
(* run_all_tasks.py: the orchestrator.  A stage is an entry of              *)
(* scripts_to_run; its status is Pending until the loop reaches it, Running *)
(* while subprocess.run waits for it, and then tells which branch of the    *)
(* try statement the call left through.                                     *)

scripts_to_run ==
    <<"collect_web3career", "scrape_cryptojobslist", "collect_reddit",
      "collect_twitter", "process_sentiment">>

NumStages == Len(scripts_to_run)

\* exit codes of a failing child: sys.exit(1) or an uncaught exception, and
\* the interpreter's own code when it cannot open the file
FailCodes == {"1", "2"}

NoOutput == [script |-> "none", returncode |-> "none", stderr |-> FALSE]

InitOrch ==
    /\ InitIdle
    /\ InitNoCanon
    /\ stage_status = [i \in 1..NumStages |-> "Pending"]
    /\ stage_idx = 0
    /\ orch_pc = "loop"
    /\ orch_exit = "none"
    /\ stage_out = [i \in 1..NumStages |-> NoOutput]

\* where the commented-out "continue" of the first handler would lead
Continue == "loop"

\* "break" in the three handlers: the loop is left
Break == "after_loop"

\* the loop takes the next script_name and calls subprocess.run
OrchLaunch ==
    /\ orch_pc = "loop"
    /\ stage_idx < NumStages
    /\ stage_idx' = stage_idx + 1
    /\ stage_status' = [stage_status EXCEPT ![stage_idx + 1] = "Running"]
    /\ stage_out' = [stage_out EXCEPT ![stage_idx + 1].script =
                                         scripts_to_run[stage_idx + 1]]
    /\ orch_pc' = "waiting"
    /\ UNCHANGED <<orch_exit, procVars, jobsVars, socialVars, canonVars, histVars, sentVars, obsVars, twiceVars, runVars>>

\* the child exited with code 0 within the time limit; its output is printed
OrchStageSucceeded ==
    /\ orch_pc = "waiting"
    /\ \E stderr \in BOOLEAN :
         stage_out' = [stage_out EXCEPT ![stage_idx].returncode = "0",
                                        ![stage_idx].stderr = stderr]
    /\ stage_status' = [stage_status EXCEPT ![stage_idx] = "Succeeded"]
    /\ orch_pc' = "pause"
    /\ UNCHANGED <<stage_idx, orch_exit, procVars, jobsVars, socialVars, canonVars,
                   histVars, sentVars, obsVars, twiceVars, runVars>>

\* a CalledProcessError handler that starts the failing script again
OrchStageFailedRetry ==
    /\ orch_pc = "waiting"
    /\ \E rc \in FailCodes :
         stage_out' = [stage_out EXCEPT ![stage_idx].returncode = rc]
    /\ stage_status' = [stage_status EXCEPT ![stage_idx] = "Failed"]
    /\ stage_idx' = stage_idx - 1
    /\ orch_pc' = "loop"
    /\ UNCHANGED <<orch_exit, procVars, jobsVars, socialVars, canonVars, histVars, sentVars, obsVars, twiceVars, runVars>>

\* check=True: the child exited with a non-zero code (CalledProcessError)
OrchStageFailed ==
    /\ orch_pc = "waiting"
    /\ \E rc \in FailCodes :
         stage_out' = [stage_out EXCEPT ![stage_idx].returncode = rc]
    /\ stage_status' = [stage_status EXCEPT ![stage_idx] = "Failed"]
    /\ orch_pc' = Break
    /\ UNCHANGED <<stage_idx, orch_exit, procVars, jobsVars, socialVars, canonVars,
                   histVars, sentVars, obsVars, twiceVars, runVars>>

\* timeout=900: the child was stopped at the time limit (TimeoutExpired)
OrchStageTimedOut ==
    /\ orch_pc = "waiting"
    /\ stage_status' = [stage_status EXCEPT ![stage_idx] = "TimedOut"]
    /\ orch_pc' = Break
    /\ UNCHANGED <<stage_idx, orch_exit, stage_out, procVars, jobsVars, socialVars,
                   canonVars, histVars, sentVars, obsVars, twiceVars, runVars>>

\* any other exception of subprocess.run: the stage counts as failed, with
\* no return code
OrchStageUnexpected ==
    /\ orch_pc = "waiting"
    /\ stage_status' = [stage_status EXCEPT ![stage_idx] = "Failed"]
    /\ orch_pc' = Break
    /\ UNCHANGED <<stage_idx, orch_exit, stage_out, procVars, jobsVars, socialVars,
                   canonVars, histVars, sentVars, obsVars, twiceVars, runVars>>

\* the elapsed-time line and time.sleep(5) after a stage that succeeded
OrchPause ==
    /\ orch_pc = "pause"
    /\ orch_pc' = "loop"
    /\ UNCHANGED <<stage_status, stage_idx, orch_exit, stage_out, procVars, jobsVars,
                   socialVars, canonVars, histVars, sentVars, obsVars, twiceVars, runVars>>

\* a loop that starts over with the first script once the list is exhausted
OrchLoopAgain ==
    /\ orch_pc = "loop"
    /\ stage_idx = NumStages
    /\ stage_idx' = 0
    /\ UNCHANGED <<orch_pc, stage_status, orch_exit, stage_out, procVars, jobsVars,
                   socialVars, canonVars, histVars, sentVars, obsVars, twiceVars, runVars>>

\* scripts_to_run is exhausted
OrchLoopEnd ==
    /\ orch_pc = "loop"
    /\ stage_idx = NumStages
    /\ orch_pc' = "after_loop"
    /\ UNCHANGED <<stage_status, stage_idx, orch_exit, stage_out, procVars, jobsVars,
                   socialVars, canonVars, histVars, sentVars, obsVars, twiceVars, runVars>>

\* the last print; the interpreter then reaches the end of the file
OrchFinish ==
    /\ orch_pc = "after_loop"
    /\ orch_exit' = "0"
    /\ orch_pc' = "done"
    /\ UNCHANGED <<stage_status, stage_idx, stage_out, procVars, jobsVars,
                   socialVars, canonVars, histVars, sentVars, obsVars, twiceVars, runVars>>

NextOrch ==
    \/ OrchLaunch
    \/ OrchStageSucceeded
    \/ OrchStageFailed
    \/ OrchStageTimedOut
    \/ OrchStageUnexpected
    \/ OrchPause
    \/ OrchLoopEnd
    \/ OrchFinish

SpecOrch == InitOrch /\ [][NextOrch]_vars

\* subprocess.run returns or raises, at the latest when timeout=900 stops the
\* child, and time.sleep(5) ends: the orchestrator takes a step when it can
SpecOrchFair == SpecOrch /\ WF_vars(NextOrch)

-----------------------------------------------------------------------------
(* Specification of the whole system: the five scripts, one process at a   *)
(* time as run_all_tasks.py (or a user) starts them, on both stores, each  *)
(* request answered with at most one record.                               *)

OneWeb3Job == {W(S_Dev, U1, TagList(<<S_Remote>>)), W(S_Eng, U1, TagList(<<>>))}

OneCjlRow == {R(S_Eng, <<"/j1">>, <<>>, NoneVal)}

\* the one post both vendors return
OnePost == {"s1"}

Web3FetchOne == Web3Fetch(SeqsUpTo(OneWeb3Job, 1))

CjlFetchOne == CjlFetch(SeqsUpTo(OneCjlRow, 1))

RedditSubredditOne == RedditSubredditOn(SeqsUpTo(OnePost, 1))

RedditSearchOne == RedditSearchOn(SeqsUpTo(OnePost, 1))

TwitterQueryOne == TwitterQueryOn(SeqsUpTo(OnePost, 1))

StartAnyScript ==
    \E i \in 1..NumStages :
        /\ scripts_to_run[i] = "process_sentiment" => utcnow < MaxRuns
        /\ StartScript(scripts_to_run[i])
        /\ UNCHANGED twiceVars

\* the steps of a process that is alive
ProcessStep ==
    \/ JobsDbSetup
    \/ Web3ApiSetup
    \/ Web3FetchOne
    \/ Web3ProcessEntry
    \/ Web3Commit
    \/ Web3Restart
    \/ CjlFetchOne
    \/ CjlProcessRow
    \/ CjlCommit
    \/ JobsFinally
    \/ RedditDbSetup
    \/ TwitterDbSetup
    \/ SocialApiSetup
    \/ RedditSubredditOne
    \/ RedditToSearch
    \/ RedditSearchOne
    \/ RedditToFinally
    \/ TwitterQueryOne
    \/ TwitterToFinally
    \/ SocialFinally
    \/ SentimentSetup
    \/ SentimentQuery
    \/ SentimentProcessDoc
    \/ SentimentSummary
    \/ SentimentFinally
    \/ ScriptEnd

NextSystem == StartAnyScript \/ ProcessStep

SpecSystem == InitCommon /\ [][NextSystem]_vars

\* a process that is alive goes on: the interpreter runs the next statement,
\* and every request has a time limit
SpecSystemFair == SpecSystem /\ WF_vars(ProcessStep)

-----------------------------------------------------------------------------
(* Claims about the orchestrator. *)

Stages == 1..NumStages

Terminal == {"Succeeded", "Failed", "TimedOut"}

\* C8: when a stage has ended Failed or TimedOut, every stage before it has
\* Succeeded and every stage after it is Pending, in every state from then
\* on: no later stage is started.
C8_HaltOnFailure ==
    \A i \in Stages :
        stage_status[i] \in {"Failed", "TimedOut"}
        => /\ \A j \in Stages : j < i => stage_status[j] = "Succeeded"
           /\ \A j \in Stages : j > i => stage_status[j] = "Pending"

\* the run [A succeeds, B times out, C, D, E] has finished
C8_Witness ==
    /\ orch_pc = "done"
    /\ stage_status = <<"Succeeded", "TimedOut", "Pending", "Pending", "Pending">>

\* C9: when the orchestrator has ended, its exit status is success exactly
\* when every stage succeeded (and a failure status when a stage that
\* failed or timed out halted the run).
C9_ExitReflectsLastStage ==
    orch_pc = "done"
    => (orch_exit = "0" <=> \A i \in Stages : stage_status[i] = "Succeeded")

StageMove(i) ==
    \/ stage_status'[i] = stage_status[i]
    \/ stage_status[i] = "Pending" /\ stage_status'[i] = "Running"
    \/ stage_status[i] = "Running" /\ stage_status'[i] \in Terminal

StartedInOrder(i) ==
    (stage_status[i] = "Pending" /\ stage_status'[i] = "Running")
    => /\ \A j \in Stages : j < i => stage_status[j] = "Succeeded"
       /\ stage_out'[i].script = scripts_to_run[i]

\* C10: a stage only moves Pending -> Running -> {Succeeded, Failed,
\* TimedOut}; it is started with the script of its place in the list, when
\* all stages before it have Succeeded; at most one stage is Running.
C10_StageMachine ==
    /\ [](Cardinality({i \in Stages : stage_status[i] = "Running"}) <= 1)
    /\ [][\A i \in Stages : StageMove(i) /\ StartedInOrder(i)]_vars

\* all five stages ran, one after the other, and succeeded
C10_Witness ==
    /\ orch_pc = "done"
    /\ \A i \in Stages :
         stage_status[i] = "Succeeded" /\ stage_out[i].script = scripts_to_run[i]

-----------------------------------------------------------------------------
(* Claims about the enrichment pass. *)

Posts == 1..Len(social_media_posts)

HasSentiment(d) == "sentiment" \in DOMAIN d

\* the text is missing, not a string, or shorter than 5 characters once trimmed
TextTooShort(d) ==
    \/ "text" \notin DOMAIN d
    \/ d.text \in {NoneVal, NotAStr}
    \/ Len(Strip(d.text)) < 5

\* C11: in every run and across runs of the enrichment pass, no step writes
\* to a document that has a sentiment field: the document, its sentiment and
\* the time of its analysis stay as they are.
C11_SentimentNotOverwritten ==
    [][\A i \in Posts :
          HasSentiment(social_media_posts[i])
          => social_media_posts'[i] = social_media_posts[i]]_vars

\* a later pass has written a sentiment next to one an earlier pass wrote
C11_Witness ==
    /\ script = "process_sentiment"
    /\ \E i, j \in Posts :
         /\ HasSentiment(social_media_posts[i])
         /\ HasSentiment(social_media_posts[j])
         /\ social_media_posts[j].sentiment_analyzed_at = utcnow
         /\ social_media_posts[i].sentiment_analyzed_at < utcnow

\* C12: the enrichment pass neither analyses nor updates a document whose
\* text is missing, not a string or shorter than 5 characters once trimmed:
\* the loop iteration over it changes no counter, and no step changes the
\* stored document.
C12_ShortTextUntouched ==
    /\ [][\A i \in Posts :
             TextTooShort(social_media_posts[i])
             => social_media_posts'[i] = social_media_posts[i]]_vars
    /\ [][(/\ script = "process_sentiment"
           /\ pc = "loop"
           /\ idx' = idx + 1
           /\ TextTooShort(documents_to_analyze[idx + 1]))
          => UNCHANGED <<social_media_posts, updated_count, error_count>>]_vars

\* a pass went over a document whose text is short only once trimmed, and
\* over one it analysed
C12_Witness ==
    /\ script = "process_sentiment"
    /\ pc = "finished"
    /\ updated_count > 0
    /\ idx = Len(documents_to_analyze)
    /\ \E k \in 1..Len(documents_to_analyze) :
         /\ "text" \in DOMAIN documents_to_analyze[k]
         /\ documents_to_analyze[k].text = S_hi_padded
         /\ ~HasSentiment(social_media_posts[documents_to_analyze[k]._id])

\* C18: in the loop of the enrichment pass a failure on one document adds
\* exactly one to error_count and the loop goes on with the next document;
\* the loop is only left when every selected document has been gone through.
C18_FailureDoesNotEndPass ==
    /\ [][(script = "process_sentiment" /\ error_count' > error_count)
          => /\ pc = "loop"
             /\ error_count' = error_count + 1
             /\ idx' = idx + 1
             /\ pc' = "loop"]_vars
    /\ [][(script = "process_sentiment" /\ pc = "loop" /\ pc' # "loop")
          => idx = Len(documents_to_analyze)]_vars

\* a pass failed on its first document and then updated its second one
C18_Witness ==
    /\ script = "process_sentiment"
    /\ pc = "finished"
    /\ Len(documents_to_analyze) = 2
    /\ error_count = 1
    /\ updated_count = 1
    /\ ~HasSentiment(social_media_posts[documents_to_analyze[1]._id])
    /\ HasSentiment(social_media_posts[documents_to_analyze[2]._id])

-----------------------------------------------------------------------------
(* Claims about setup, cleanup and error handling of the scripts. *)

\* C13: a script that gives up because a required setting (connection
\* string, vendor credential, API token) is missing exits with a non-zero
\* code and has opened no connection to a datastore before.
C13_ConfigAbortBeforeActivity ==
    abort_cause = "config"
    => /\ pc = "exited" => exit_status # "0"
       /\ db_conn = "none"
       /\ mongo_client = "none"

\* C14: when a script has terminated, by whatever path, no datastore
\* connection it opened is left open.
C14_ConnectionsClosedAtExit ==
    pc = "exited" => (db_conn # "open" /\ mongo_client # "open")

\* C15: a step of the Reddit collector that stores documents raises
\* inserted_count by the number of documents it added to the collection;
\* in the subreddit phase, where the batch is the whole listing, it raises
\* skipped_count by the number of documents of the batch it did not add.
C15_CollisionsCounted ==
    [][(script = "collect_reddit" /\ pc \in {"subreddits", "search"})
       => LET added == Len(social_media_posts') - Len(social_media_posts)
              n == total_processed' - total_processed
          IN  /\ inserted_count' - inserted_count = added
              /\ pc = "subreddits" => skipped_count' - skipped_count = n - added]_vars

\* a job entry that is not a dictionary, or whose tags cannot be iterated
Malformed(e) == ~e.isdict \/ e.tags.kind = "int"

\* C16: a pass of the API collector over a fetched list with exactly one
\* malformed entry, in which no insert raised, goes through the whole list
\* and commits the row of every well-formed entry that has title and URL.
C16_MalformedRecordSkipped ==
    (/\ script = "collect_web3career"
     /\ pc = "finished"
     /\ ~fetch_failed
     /\ faults = {}
     /\ Cardinality({i \in 1..Len(jobs_list) : Malformed(jobs_list[i])}) = 1)
    => /\ idx = Len(jobs_list)
       /\ skipped_count >= 1
       /\ \A i \in 1..Len(jobs_list) :
            Web3Canon(jobs_list[i]).outcome = "row"
            => HasUrl(job_postings, Web3Canon(jobs_list[i]).row.job_url)

\* C17: a script that found the datastore unreachable at startup ends with
\* a non-zero exit code, has processed no record and leaves no connection
\* open.
C17_UnreachableStoreFails ==
    (abort_cause = "connect" /\ pc = "exited")
    => /\ exit_status # "0"
       /\ db_conn # "open" /\ mongo_client # "open"
       /\ documents_to_analyze = <<>> /\ jobs_list = <<>> /\ total_processed = 0

-----------------------------------------------------------------------------
(* Claims about the stored records under all scripts. *)

Collectors == JobScripts \cup SocialScripts

\* no step removes a record, and on the documents already stored a step
\* only adds or changes the fields of the set allowed
OnlyFieldsChange(allowed) ==
    /\ \A r \in job_postings : r \in job_postings'
    /\ Len(social_media_posts') >= Len(social_media_posts)
    /\ \A i \in Posts :
         /\ script \in Collectors => social_media_posts'[i] = social_media_posts[i]
         /\ \A f \in (DOMAIN social_media_posts[i] \cup DOMAIN social_media_posts'[i])
                     \ allowed :
              /\ f \in DOMAIN social_media_posts[i]
              /\ f \in DOMAIN social_media_posts'[i]
              /\ social_media_posts'[i][f] = social_media_posts[i][f]

\* C19 as stated: no step of any script deletes a stored record; a step of
\* a collector changes no stored record, and a step of the enrichment pass
\* adds or changes no field of a stored record other than sentiment.
C19_OnlySentimentChanges == [][OnlyFieldsChange({"sentiment"})]_vars

\* C19 as amended: ... adds or changes no field of a stored record other
\* than sentiment and sentiment_analyzed_at.
C19_OnlySentimentFieldsChange ==
    [][OnlyFieldsChange({"sentiment", "sentiment_analyzed_at"})]_vars

\* a Reddit run has met, and skipped, a post that the enrichment pass had
\* analysed, next to a committed job row
C19_Witness ==
    /\ script = "collect_reddit"
    /\ pc = "finished"
    /\ skipped_count > 0
    /\ job_postings # {}
    /\ \E i \in Posts :
         /\ social_media_posts[i].source = "reddit"
         /\ HasSentiment(social_media_posts[i])
         /\ social_media_posts[i].text = TextOf(social_media_posts[i].source_specific_id)

\* C20: the step in which a request of a collector fails changes neither
\* store and does not end the process; from then on the run removes and
\* changes no stored record; it ends with the connection closed, and it
\* does reach the end of its cleanup block.
C20_FetchErrorKeepsRecords ==
    /\ [][(script \in Collectors /\ ~fetch_failed /\ fetch_failed')
          => /\ job_postings' = job_postings
             /\ social_media_posts' = social_media_posts
             /\ pc' # "exited"]_vars
    /\ [][(script \in Collectors /\ fetch_failed)
          => /\ \A r \in job_postings : r \in job_postings'
             /\ \A i \in Posts : social_media_posts'[i] = social_media_posts[i]]_vars
    /\ []((script \in Collectors /\ fetch_failed /\ pc = "exited")
          => (exit_status = "0" /\ db_conn # "open" /\ mongo_client # "open"))
    /\ (script \in Collectors /\ fetch_failed)
       ~> (pc \in {"finished", "exited"} /\ db_conn # "open" /\ mongo_client # "open")

\* a Reddit run stored a post, had a request fail, and finished
C20_Witness ==
    /\ script = "collect_reddit"
    /\ pc = "finished"
    /\ fetch_failed
    /\ inserted_count = 1
    /\ mongo_client = "closed"
    /\ \E i \in Posts : social_media_posts[i].source = "reddit"

-----------------------------------------------------------------------------
(* Two runs of one collector on the same source data: the vendor answers every
   request of both runs with vendor_data, no request fails and the store
   accepts every insert it is sent. *)

VendorData ==
    {[for |-> "collect_web3career", data |-> raw] :
        raw \in ApiResponses(SeqsUpTo(RawWeb3Jobs, MaxBatch))}
    \cup {[for |-> "scrape_cryptojobslist", data |-> rows] :
        rows \in SeqsUpTo(RawCjlRows, MaxBatch)}
    \cup {[for |-> s, data |-> listing] :
        s \in SocialScripts, listing \in SeqsUpTo(Ids, MaxBatch)}

\* both stores are empty and one script with one vendor answer is chosen
InitTwice ==
    /\ InitProcess
    /\ InitNoOrch
    /\ InitNoCanon
    /\ social_media_posts = <<>>
    /\ vendor_data \in VendorData
    /\ run_no = 0
    /\ first_run = NoRun

\* no request of the pass failed and no insert was refused
NoOutage == ~fetch_failed /\ faults = {}

StartFirstRun ==
    /\ run_no = 0
    /\ StartScript(vendor_data.for)
    /\ run_no' = 1
    /\ UNCHANGED <<vendor_data, first_run>>

\* the same script is started again once its first run has ended normally
StartSecondRun ==
    /\ run_no = 1
    /\ exit_status = "0"
    /\ StartScript(vendor_data.for)
    /\ run_no' = 2
    /\ first_run' = [ended |-> TRUE, job_postings |-> job_postings,
                     social_media_posts |-> social_media_posts]
    /\ UNCHANGED vendor_data

Web3FetchSame == Web3FetchOn({vendor_data.data}) /\ NoOutage'

Web3EntrySame == Web3ProcessEntry /\ NoOutage'

CjlFetchSame == CjlFetch({vendor_data.data}) /\ NoOutage'

CjlRowSame == CjlProcessRow /\ NoOutage'

RedditSubredditSame == RedditSubredditOn({vendor_data.data}) /\ NoOutage'

RedditSubredditsDone == iter = NumSubreddits /\ RedditToSearch

RedditSearchSame == RedditSearchOn({vendor_data.data}) /\ NoOutage'

RedditSearchDone == iter = NumKeywords /\ RedditToFinally

TwitterQuerySame == TwitterQueryOn({vendor_data.data}) /\ NoOutage'

TwitterQueriesDone == iter = NumQueries /\ TwitterToFinally

NextTwice ==
    \/ StartFirstRun
    \/ StartSecondRun
    \/ JobsDbSetup
    \/ Web3ApiSetup
    \/ Web3FetchSame
    \/ Web3EntrySame
    \/ Web3Commit
    \/ Web3Restart
    \/ CjlFetchSame
    \/ CjlRowSame
    \/ CjlCommit
    \/ JobsFinally
    \/ RedditDbSetup
    \/ TwitterDbSetup
    \/ SocialApiSetup
    \/ RedditSubredditSame
    \/ RedditSubredditsDone
    \/ RedditSearchSame
    \/ RedditSearchDone
    \/ TwitterQuerySame
    \/ TwitterQueriesDone
    \/ SocialFinally
    \/ ScriptEnd

SpecTwice == InitTwice /\ [][NextTwice]_vars

-----------------------------------------------------------------------------
(* Repeated runs of process_sentiment.py on a collection that no collector
   writes to any more: a backlog of posts the pass leaves aside, followed by
   one post it can analyse. The database answers and the analyzer works in
   every run. *)

\* the k-th post of the backlog: without a text, or with one too short
BacklogPost(k) ==
    IF k % 2 = 1
    THEN [source |-> "twitter", source_method |-> "search_recent",
          source_specific_id |-> <<"t", k>>, _id |-> k]
    ELSE [source |-> "twitter", source_method |-> "search_recent",
          source_specific_id |-> <<"t", k>>, text |-> S_hi_padded, _id |-> k]

AnalysablePost(k) ==
    [source |-> "twitter", source_method |-> "search_recent",
     source_specific_id |-> <<"t", k>>, text |-> S_great, _id |-> k]

\* n backlog posts, then the post that can be analysed
BacklogThenPost(n) ==
    [k \in 1..(n + 1) |-> IF k <= n THEN BacklogPost(k) ELSE AnalysablePost(k)]

BacklogSizes == {0, 1, process_limit - 1, process_limit}

InitBacklog ==
    /\ InitProcess
    /\ InitNoRepeat
    /\ InitNoOrch
    /\ InitNoCanon
    /\ \E n \in BacklogSizes : social_media_posts = BacklogThenPost(n)

SentimentSetupOk == SentimentSetup /\ pc' = "query"

SentimentQueryOk == SentimentQuery /\ ~fetch_failed'

SentimentProcessDocOk == SentimentProcessDoc /\ error_count' = error_count

\* the script is started again whenever it has ended; the runs beyond
\* MaxRuns read the clock at its last value
StartSentimentAgain == StartScript("process_sentiment") /\ UNCHANGED twiceVars

NextBacklog ==
    \/ StartSentimentAgain
    \/ SentimentSetupOk
    \/ SentimentQueryOk
    \/ SentimentProcessDocOk
    \/ SentimentSummary
    \/ SentimentFinally
    \/ ScriptEnd

\* a run that can take a step takes one, and a new run is started whenever
\* the last one has ended
SpecBacklog == InitBacklog /\ [][NextBacklog]_vars /\ WF_vars(NextBacklog)

-----------------------------------------------------------------------------
(* Claims about the API response, repeated runs and termination. *)

\* the check of the code on the parsed response
ExpectedStructure(raw) ==
    raw.kind = "list" /\ Len(raw.items) > 2 /\ raw.items[3].kind = "list"

\* the API answered in this pass and the answer lacks the expected structure
UnexpectedAnswer ==
    /\ script = "collect_web3career"
    /\ pc \in {"loop", "finally", "finished"}
    /\ ~fetch_failed
    /\ ~ExpectedStructure(raw_data)

\* C21: when the Web3.Career response is not a list with more than two
\* elements whose element at index 2 is a list, the collector takes the job
\* list as empty: it inserts no row and counts none, raises no exception, and
\* goes from the empty loop through the commit to the summary and cleanup.
C21_UnexpectedResponseIsEmpty ==
    /\ [](UnexpectedAnswer =>
            /\ jobs_list = <<>>
            /\ inserted_count = 0
            /\ skipped_count = 0
            /\ txn = {}
            /\ job_postings = store_at_start
            /\ ~api_error)
    /\ [][UnexpectedAnswer =>
            /\ pc = "loop" => pc' = "finally" /\ calls'.commit = calls.commit + 1
            /\ pc = "finally" => pc' = "finished" /\ db_conn' = "closed"
            /\ pc \in {"loop", "finally"} => job_postings' = job_postings]_vars

\* a pass that got a shifted envelope holding entries has reached its end
C21_Witness ==
    /\ UnexpectedAnswer
    /\ pc = "finished"
    /\ raw_data.kind = "list"
    /\ \E i \in 1..Len(raw_data.items) :
           raw_data.items[i].kind = "list" /\ raw_data.items[i].jobs # <<>>

\* the records of vendor_data the run tried to store: all it read, but for the
\* advertisement rows the scraper passes over
Attempted ==
    IF script = "collect_web3career" THEN Len(jobs_list)
    ELSE IF script = "scrape_cryptojobslist"
    THEN Cardinality({i \in 1..Len(jobs_list) : ~jobs_list[i].ad})
    ELSE total_processed

\* C22: a second run of a collector on the same fetched source data leaves
\* the store as the first run left it, and reports inserted_count = 0 with
\* every attempted record counted as skipped.
C22_SecondRunIdempotent ==
    (run_no = 2 /\ pc = "exited" /\ exit_status = "0") =>
        /\ job_postings = first_run.job_postings
        /\ social_media_posts = first_run.social_media_posts
        /\ inserted_count = 0
        /\ skipped_count = Attempted

\* every stored post whose trimmed text has 5 characters or more has a
\* sentiment value
AnalysableAllScored ==
    \A i \in Posts :
        ~TextTooShort(social_media_posts[i]) => HasSentiment(social_media_posts[i])

\* C23: under repeated runs of the enrichment pass with no new post arriving,
\* every stored post with 5 or more characters of trimmed text eventually has
\* a sentiment value, however many posts without usable text are stored.
C23_AnalysableEventuallyScored == <>AnalysableAllScored

\* C24: one invocation of collect_web3career.py, here the first one on an
\* empty table, opens one database connection, sends one API request, makes
\* one pass with one commit and prints one summary, whose inserted count is
\* the number of rows the invocation added to the table.
C24_PipelineRunsOnce ==
    (script = "collect_web3career" /\ run_no = 1 /\ pc = "exited"
         /\ exit_status = "0") =>
        /\ calls.connect = 1
        /\ calls.request = 1
        /\ pass_no = 1
        /\ calls.commit <= 1
        /\ calls.summary = 1
        /\ inserted_count = Cardinality(job_postings)

\* C25: every orchestrator run ends, whether its stages succeed, fail or time
\* out, and stays ended; it starts at most the five listed stages, going
\* forward through the list only, and starts no stage a second time.
C25_OrchestratorTerminates ==
    /\ <>[](orch_pc = "done")
    /\ [](stage_idx <= NumStages /\ Len(stage_status) = Len(scripts_to_run))
    /\ [][/\ stage_idx' >= stage_idx
          /\ \A i \in Stages :
                (stage_status[i] # "Running" /\ stage_status'[i] = "Running")
                => (stage_status[i] = "Pending" /\ i = stage_idx + 1)]_vars

\* a run whose third stage failed has ended, its last two stages never started
C25_Witness ==
    /\ orch_pc = "done"
    /\ stage_idx = 3
    /\ stage_status = <<"Succeeded", "Succeeded", "Failed", "Pending", "Pending">>
    /\ stage_out[3].returncode \in FailCodes

====
